---- MODULE Spec2Model ----
(***************************************************************************)
(* A model of melody's Session (session.go): the open flag guarded by the  *)
(* RWMutex, the buffered output channel, the websocket connection, the two *)
(* pumps and the producer calls Write, WriteBinary, Close, CloseWithMsg and   *)
(* IsClosed.  Every step that touches shared state (the flag under the     *)
(* lock, the channel, the connection) is one action, so that every         *)
(* interleaving the Go scheduler can produce is a behaviour of Spec.       *)
(***************************************************************************)
EXTENDS Naturals, Sequences, FiniteSets

\* ---------------------------------------------------------------- bounds
\* Config.MessageBufferSize: the capacity of the output channel.
BufferSize == 2
\* Producer calls made over the session's life.
MaxCalls == 3
\* Producer calls made in the behaviours checked for liveness.
MaxLiveCalls == 2
\* Heartbeat ticks delivered to writePump.
MaxPings == 1
\* Config.PongWait, in ticks of the clock.
PongWait == 2
\* How far the clock runs.
MaxTime == 3
\* Pongs the peer sends.
MaxPongs == 1
\* Producer calls made in the behaviours checked with the clock running.
MaxHeartbeatCalls == 1

\* ------------------------------------------------------------- constants
Producers == {"p1"}
Pumps == {"wp", "rp"}
Contexts == Pumps \cup Producers
Payloads == {"a"}
NoOne == "none"

\* websocket message types used by session.go
TextMessage == "Text"
BinaryMessage == "Binary"
CloseMessage == "Close"
PingMessage == "Ping"

\* errors (session.go:12-17); ErrTransport stands for any error of the
\* connection's WriteMessage / ReadMessage
ErrWriteToClosedSession == "ErrWriteToClosedSession"
ErrMessageBufferFull == "ErrMessageBufferFull"
ErrSessionClosed == "ErrSessionClosed"
ErrSessionAlreadyClosed == "ErrSessionAlreadyClosed"
ErrTransport == "ErrTransport"
\* what a read of a closed connection returns
ErrConnClosed == "ErrConnClosed"
\* what a read returns once its deadline has passed
ErrTimeout == "ErrTimeout"
Nil == "nil"

Ops == {"Write", "WriteBinary", "Close", "CloseWithMsg", "IsClosed"}
CloseOps == {"Close", "CloseWithMsg"}
SendOps == {"Write", "WriteBinary"}

envelope(t, msg) == [t |-> t, msg |-> msg]
NoMsg == envelope("none", "")

VARIABLES
    open,       \* Session.open
    wlock,      \* the context holding rwmutex for writing, or NoOne
    connCloses, \* how many times conn.Close() ran
    outCloses,  \* how many times close(s.output) ran
    output,     \* the envelopes buffered in s.output
    panicked,   \* a goroutine panicked: the process is gone
    pc,         \* where each context is
    cur,        \* the call each producer is in
    wmsg,       \* writePump: the envelope handed to writeRaw
    werr,       \* writePump: what writeRaw returned
    pings,      \* ticks delivered so far
    callsLeft,  \* producer calls the application still makes
    inWrite,    \* contexts inside conn.WriteMessage
    connUsers,  \* contexts that wrote to, read from or closed conn
    wire,       \* what conn.WriteMessage was given, in order, with its outcome
    accepted,   \* envelopes the channel accepted, in order
    taken,      \* how many envelopes writePump received
    sent,       \* messageSentHandler / messageSentHandlerBinary invocations
    errCalls,   \* errorHandler invocations, per context
    history,    \* per producer, the calls that returned: op, result, ...
    now,        \* time.Now(), in ticks
    readDeadline, \* the connection's read deadline
    pongs,      \* pongHandler invocations
    rerr        \* readPump: the error conn.ReadMessage returned

vars == <<open, wlock, connCloses, outCloses, output, panicked, pc, cur, wmsg,
          werr, pings, callsLeft, inWrite, connUsers, wire, accepted, taken,
          sent, errCalls, history, now, readDeadline, pongs, rerr>>

clock == <<now, readDeadline, pongs>>

shared == <<open, wlock, connCloses, outCloses, output, panicked>>
pumpLocals == <<wmsg, werr, pings>>
logs == <<inWrite, connUsers, wire, accepted, taken, sent>>

NoCall == [op |-> "none", msg |-> ""]

Init ==
    /\ open = TRUE
    /\ wlock = NoOne
    /\ connCloses = 0
    /\ outCloses = 0
    /\ output = <<>>
    /\ panicked = FALSE
    /\ pc = [c \in Contexts |-> IF c = "wp" THEN "select"
                                ELSE IF c = "rp" THEN "read" ELSE "idle"]
    /\ cur = [p \in Producers |-> NoCall]
    /\ wmsg = NoMsg
    /\ werr = Nil
    /\ pings = 0
    /\ callsLeft = MaxCalls
    /\ inWrite = {}
    /\ connUsers = {}
    /\ wire = <<>>
    /\ accepted = <<>>
    /\ taken = 0
    /\ sent = <<>>
    /\ errCalls = [c \in Contexts |-> 0]
    /\ history = [p \in Producers |-> <<>>]
    /\ now = 0
    /\ readDeadline = PongWait
    /\ pongs = 0
    /\ rerr = Nil

\* ------------------------------------------------------------ primitives
\* RLock() is granted unless a writer holds the mutex.
CanRLock == wlock = NoOne

\* closed(): the value read under the read lock.
closed == ~open

\* A goroutine runs only while the process is alive.
Alive == ~panicked

goto(c, l) == pc' = [pc EXCEPT ![c] = l]

errorHandler(c) == errCalls' = [errCalls EXCEPT ![c] = @ + 1]

\* ------------------------------------------------------- producer calls
\* The calls a producer's log keeps: the last two that returned.
Recent(h) == IF Len(h) > 2 THEN Tail(h) ELSE h

\* A producer returns: the call is logged with its result.
Return(p, op, res) ==
    /\ history' = [history EXCEPT ![p] =
                      Recent(Append(@, [op |-> op, res |-> res])) ]
    /\ cur' = [cur EXCEPT ![p] = NoCall]
    /\ goto(p, "idle")

\* An application goroutine calls Write, WriteBinary, Close or CloseWithMsg:
\* the closed() guard that opens each of them.  err is what the method
\* returns on a closed session.
Entry(p, op, m, err) ==
    /\ Alive
    /\ UNCHANGED <<clock, rerr>>
    /\ pc[p] = "idle"
    /\ callsLeft > 0
    /\ callsLeft' = callsLeft - 1
    /\ CanRLock
    /\ IF closed
          THEN Return(p, op, err)
          ELSE /\ cur' = [cur EXCEPT ![p] = [op |-> op, msg |-> m]]
               /\ goto(p, "wm_check")
               /\ UNCHANGED history
    /\ UNCHANGED <<shared, pumpLocals, logs, errCalls>>

\* Write without its own closed() guard: the call goes on to writeMessage.
Write_unguarded(p) ==
    /\ Alive
    /\ UNCHANGED <<clock, rerr>>
    /\ pc[p] = "idle"
    /\ callsLeft > 0
    /\ callsLeft' = callsLeft - 1
    /\ \E m \in Payloads : cur' = [cur EXCEPT ![p] = [op |-> "Write", msg |-> m]]
    /\ goto(p, "wm_check")
    /\ UNCHANGED <<shared, pumpLocals, logs, errCalls, history>>

Write(p) == \E m \in Payloads : Entry(p, "Write", m, ErrSessionClosed)

WriteBinary(p) ==
    \E m \in Payloads : Entry(p, "WriteBinary", m, ErrSessionClosed)

\* Close closing the connection itself instead of leaving it to the pumps.
Close_direct(p) ==
    /\ Alive
    /\ UNCHANGED <<clock, rerr>>
    /\ pc[p] = "idle"
    /\ callsLeft > 0
    /\ callsLeft' = callsLeft - 1
    /\ CanRLock
    /\ connCloses' = connCloses + 1
    /\ connUsers' = connUsers \cup {p}
    /\ Return(p, "Close", IF closed THEN ErrSessionAlreadyClosed ELSE Nil)
    /\ UNCHANGED <<open, wlock, outCloses, output, panicked, pumpLocals,
                   inWrite, wire, accepted, taken, sent, errCalls>>

\* Close returning Write's error on a closed session.
Close_wrongError(p) == Entry(p, "Close", "", ErrSessionClosed)

Close(p) == Entry(p, "Close", "", ErrSessionAlreadyClosed)

CloseWithMsg(p) ==
    \E m \in Payloads : Entry(p, "CloseWithMsg", m, ErrSessionAlreadyClosed)

IsClosed(p) ==
    /\ Alive
    /\ UNCHANGED <<clock, rerr>>
    /\ pc[p] = "idle"
    /\ callsLeft > 0
    /\ callsLeft' = callsLeft - 1
    /\ CanRLock
    /\ Return(p, "IsClosed", IF closed THEN "true" ELSE "false")
    /\ UNCHANGED <<shared, pumpLocals, logs, errCalls>>

\* The envelope a call hands to writeMessage.
EnvelopeOf(c) ==
    envelope(CASE c.op = "Write" -> TextMessage
               [] c.op = "WriteBinary" -> BinaryMessage
               [] OTHER -> CloseMessage, c.msg)

\* writeMessage, its closed() guard.
writeMessage_closed(p) ==
    /\ Alive
    /\ UNCHANGED <<clock, rerr>>
    /\ pc[p] = "wm_check"
    /\ CanRLock
    /\ IF closed
          THEN /\ errorHandler(p)
               /\ Return(p, cur[p].op, ErrWriteToClosedSession)
          ELSE /\ goto(p, "wm_send")
               /\ UNCHANGED <<errCalls, history, cur>>
    /\ UNCHANGED <<shared, pumpLocals, logs, callsLeft>>

\* A channel that takes one value more than its capacity.
HasRoom_offByOne(q) == Len(q) <= BufferSize

\* A buffered channel takes a value without blocking while it has a free slot.
HasRoom(q) == Len(q) < BufferSize

\* writeMessage that lets a close envelope in even when the channel is full.
writeMessage_send_closeFirst(p) ==
    /\ Alive
    /\ UNCHANGED <<clock, rerr>>
    /\ pc[p] = "wm_send"
    /\ IF outCloses > 0
          THEN /\ panicked' = TRUE
               /\ goto(p, "panic")
               /\ UNCHANGED <<output, accepted, errCalls, history, cur>>
          ELSE IF HasRoom(output) \/ cur[p].op \in CloseOps
          THEN /\ output' = Append(output, EnvelopeOf(cur[p]))
               /\ accepted' = Append(accepted, EnvelopeOf(cur[p]))
               /\ UNCHANGED <<errCalls, panicked>>
               /\ Return(p, cur[p].op, Nil)
          ELSE /\ errorHandler(p)
               /\ Return(p, cur[p].op, ErrMessageBufferFull)
               /\ UNCHANGED <<output, accepted, panicked>>
    /\ UNCHANGED <<open, wlock, connCloses, outCloses, pumpLocals, callsLeft,
                   inWrite, connUsers, wire, taken, sent>>

\* writeMessage, its select: a send on a closed channel panics, a send on a
\* channel with a free slot succeeds, otherwise the default case runs.
writeMessage_send(p) ==
    /\ Alive
    /\ UNCHANGED <<clock, rerr>>
    /\ pc[p] = "wm_send"
    /\ IF outCloses > 0
          THEN /\ panicked' = TRUE
               /\ goto(p, "panic")
               /\ UNCHANGED <<output, accepted, errCalls, history, cur>>
          ELSE IF HasRoom(output)
          THEN /\ output' = Append(output, EnvelopeOf(cur[p]))
               /\ accepted' = Append(accepted, EnvelopeOf(cur[p]))
               /\ UNCHANGED <<errCalls, panicked>>
               /\ Return(p, cur[p].op, Nil)
          ELSE /\ errorHandler(p)
               /\ Return(p, cur[p].op, ErrMessageBufferFull)
               /\ UNCHANGED <<output, accepted, panicked>>
    /\ UNCHANGED <<open, wlock, connCloses, outCloses, pumpLocals, callsLeft,
                   inWrite, connUsers, wire, taken, sent>>

\* ---------------------------------------------------------------- close
\* close(), its closed() guard (line 68): the read lock is released before
\* the write lock is asked for.
close_closed(c) ==
    /\ Alive
    /\ UNCHANGED <<clock, rerr>>
    /\ pc[c] = "cl_check"
    /\ CanRLock
    /\ goto(c, IF closed THEN "done" ELSE "cl_lock")
    /\ UNCHANGED <<shared, pumpLocals, logs, cur, callsLeft, errCalls, history>>

\* close() that takes the lock and leaves the flag as it is.
close_Lock_noflag(c) ==
    /\ Alive
    /\ UNCHANGED <<clock, rerr>>
    /\ pc[c] = "cl_lock"
    /\ wlock = NoOne
    /\ wlock' = c
    /\ goto(c, "cl_conn")
    /\ UNCHANGED <<open, connCloses, outCloses, output, panicked, pumpLocals,
                   logs, cur, callsLeft, errCalls, history>>

\* s.rwmutex.Lock(); s.open = false.  The flag is read only under the lock,
\* so no other context can tell the two statements apart.
close_Lock(c) ==
    /\ Alive
    /\ UNCHANGED <<clock, rerr>>
    /\ pc[c] = "cl_lock"
    /\ wlock = NoOne
    /\ wlock' = c
    /\ open' = FALSE
    /\ goto(c, "cl_conn")
    /\ UNCHANGED <<connCloses, outCloses, output, panicked, pumpLocals,
                   logs, cur, callsLeft, errCalls, history>>

\* close() that releases the lock once the connection is closed, before it
\* closes the channel.
close_conn_unlock(c) ==
    /\ Alive
    /\ UNCHANGED <<clock, rerr>>
    /\ pc[c] = "cl_conn"
    /\ connCloses' = connCloses + 1
    /\ connUsers' = connUsers \cup {c}
    /\ wlock' = NoOne
    /\ goto(c, "cl_chan")
    /\ UNCHANGED <<open, outCloses, output, panicked, pumpLocals,
                   inWrite, wire, accepted, taken, sent,
                   cur, callsLeft, errCalls, history>>

\* s.conn.Close()
close_conn(c) ==
    /\ Alive
    /\ UNCHANGED <<clock, rerr>>
    /\ pc[c] = "cl_conn"
    /\ connCloses' = connCloses + 1
    /\ connUsers' = connUsers \cup {c}
    /\ goto(c, "cl_chan")
    /\ UNCHANGED <<open, wlock, outCloses, output, panicked, pumpLocals,
                   inWrite, wire, accepted, taken, sent,
                   cur, callsLeft, errCalls, history>>

\* close(s.output): closing a closed channel panics.
close_output(c) ==
    /\ Alive
    /\ UNCHANGED <<clock, rerr>>
    /\ pc[c] = "cl_chan"
    /\ outCloses' = outCloses + 1
    /\ IF outCloses > 0
          THEN panicked' = TRUE /\ goto(c, "panic")
          ELSE panicked' = FALSE /\ goto(c, "cl_unlock")
    /\ UNCHANGED <<open, wlock, connCloses, output, pumpLocals,
                   logs, cur, callsLeft, errCalls, history>>

\* s.rwmutex.Unlock()
close_Unlock(c) ==
    /\ Alive
    /\ UNCHANGED <<clock, rerr>>
    /\ pc[c] = "cl_unlock"
    /\ wlock' = NoOne
    /\ goto(c, "done")
    /\ UNCHANGED <<open, connCloses, outCloses, output, panicked, pumpLocals,
                   logs, cur, callsLeft, errCalls, history>>

\* The goroutine that ran a pump calls the session's close() once the pump
\* has returned.
teardown(c) ==
    /\ Alive
    /\ UNCHANGED <<clock, rerr>>
    /\ pc[c] = "exit"
    /\ goto(c, "cl_check")
    /\ UNCHANGED <<shared, pumpLocals, logs, cur, callsLeft, errCalls, history>>

\* ------------------------------------------------------------ writePump
\* What a receive on the channel yields and what it leaves buffered: a Go
\* channel is first in, first out.
Back(q) == q[Len(q)]
Front(q) == Head(q)

DropAll(q) == <<>>
Rest(q) == Tail(q)

\* case msg, ok := <-s.output with a buffered envelope.
writePump_receive ==
    /\ Alive
    /\ UNCHANGED <<clock, rerr>>
    /\ pc["wp"] = "select"
    /\ output # <<>>
    /\ wmsg' = Front(output)
    /\ output' = Rest(output)
    /\ taken' = taken + 1
    /\ goto("wp", "raw_check")
    /\ UNCHANGED <<open, wlock, connCloses, outCloses, panicked, werr, pings,
                   inWrite, connUsers, wire, accepted, sent,
                   cur, callsLeft, errCalls, history>>

\* case msg, ok := <-s.output with the channel closed and drained: !ok.
writePump_closed ==
    /\ Alive
    /\ UNCHANGED <<clock, rerr>>
    /\ pc["wp"] = "select"
    /\ output = <<>>
    /\ outCloses > 0
    /\ goto("wp", "exit")
    /\ UNCHANGED <<shared, pumpLocals, logs, cur, callsLeft, errCalls, history>>

\* case <-ticker.C: s.ping()
writePump_tick ==
    /\ Alive
    /\ UNCHANGED <<clock, rerr>>
    /\ pc["wp"] = "select"
    /\ pings < MaxPings
    /\ pings' = pings + 1
    /\ wmsg' = envelope(PingMessage, "")
    /\ goto("wp", "raw_check")
    /\ UNCHANGED <<shared, werr, logs, cur, callsLeft, errCalls, history>>

\* writeRaw without its closed() guard.
writeRaw_unchecked ==
    /\ Alive
    /\ UNCHANGED <<clock, rerr>>
    /\ pc["wp"] = "raw_check"
    /\ werr' = Nil
    /\ goto("wp", "raw_write")
    /\ UNCHANGED <<shared, wmsg, pings, logs, cur, callsLeft, errCalls,
                   history>>

\* writeRaw, its closed() guard.
writeRaw_closed ==
    /\ Alive
    /\ UNCHANGED <<clock, rerr>>
    /\ pc["wp"] = "raw_check"
    /\ CanRLock
    /\ IF closed
          THEN werr' = ErrWriteToClosedSession /\ goto("wp", "raw_ret")
          ELSE werr' = Nil /\ goto("wp", "raw_write")
    /\ UNCHANGED <<shared, wmsg, pings, logs, cur, callsLeft, errCalls,
                   history>>

\* What conn.WriteMessage can return: an error once the connection is
\* closed, and otherwise whatever the network does.
WriteOutcomes == IF connCloses > 0 THEN {ErrTransport} ELSE {Nil, ErrTransport}

\* writeRaw: SetWriteDeadline and the start of conn.WriteMessage.
writeRaw_write ==
    /\ Alive
    /\ UNCHANGED <<clock, rerr>>
    /\ pc["wp"] = "raw_write"
    /\ inWrite' = inWrite \cup {"wp"}
    /\ connUsers' = connUsers \cup {"wp"}
    /\ \E e \in WriteOutcomes : werr' = e
    /\ goto("wp", "raw_writing")
    /\ UNCHANGED <<shared, wmsg, pings, wire, accepted, taken, sent,
                   cur, callsLeft, errCalls, history>>

\* writeRaw: conn.WriteMessage returns.
writeRaw_return ==
    /\ Alive
    /\ UNCHANGED <<clock, rerr>>
    /\ pc["wp"] = "raw_writing"
    /\ inWrite' = inWrite \ {"wp"}
    /\ wire' = Append(wire, [t |-> wmsg.t, msg |-> wmsg.msg, err |-> werr])
    /\ goto("wp", "raw_ret")
    /\ UNCHANGED <<shared, pumpLocals, connUsers, accepted, taken, sent,
                   cur, callsLeft, errCalls, history>>

\* ping() drops what writeRaw returned; the loop goes on.
ping ==
    /\ Alive
    /\ UNCHANGED <<clock, rerr>>
    /\ pc["wp"] = "raw_ret"
    /\ wmsg.t = PingMessage
    /\ wmsg' = NoMsg
    /\ werr' = Nil
    /\ goto("wp", "select")
    /\ UNCHANGED <<shared, pings, logs, cur, callsLeft, errCalls, history>>

\* writePump reporting the error of writeRaw(msg) and going on with the loop.
writePump_error_continue ==
    /\ Alive
    /\ UNCHANGED <<clock, rerr>>
    /\ pc["wp"] = "raw_ret"
    /\ wmsg.t # PingMessage
    /\ werr # Nil
    /\ errorHandler("wp")
    /\ wmsg' = NoMsg
    /\ werr' = Nil
    /\ goto("wp", "select")
    /\ UNCHANGED <<shared, pings, logs, cur, callsLeft, history>>

\* writePump after writeRaw(msg): an error is reported and ends the loop.
writePump_error ==
    /\ Alive
    /\ UNCHANGED <<clock, rerr>>
    /\ pc["wp"] = "raw_ret"
    /\ wmsg.t # PingMessage
    /\ werr # Nil
    /\ errorHandler("wp")
    /\ goto("wp", "exit")
    /\ UNCHANGED <<shared, pumpLocals, logs, cur, callsLeft, history>>

\* writePump going on with the loop after a written close message.
writePump_close_continue ==
    /\ Alive
    /\ UNCHANGED <<clock, rerr>>
    /\ pc["wp"] = "raw_ret"
    /\ werr = Nil
    /\ wmsg.t = CloseMessage
    /\ wmsg' = NoMsg
    /\ goto("wp", "select")
    /\ UNCHANGED <<shared, werr, pings, logs, cur, callsLeft, errCalls,
                   history>>

\* writePump after a written close message: the loop ends.
writePump_close ==
    /\ Alive
    /\ UNCHANGED <<clock, rerr>>
    /\ pc["wp"] = "raw_ret"
    /\ werr = Nil
    /\ wmsg.t = CloseMessage
    /\ goto("wp", "exit")
    /\ UNCHANGED <<shared, pumpLocals, logs, cur, callsLeft, errCalls, history>>

\* writePump that has a sent handler for text messages only.
writePump_sent_textonly ==
    /\ Alive
    /\ UNCHANGED <<clock, rerr>>
    /\ pc["wp"] = "raw_ret"
    /\ werr = Nil
    /\ wmsg.t \in {TextMessage, BinaryMessage}
    /\ sent' = (IF wmsg.t = TextMessage THEN Append(sent, wmsg) ELSE sent)
    /\ wmsg' = NoMsg
    /\ goto("wp", "select")
    /\ UNCHANGED <<shared, werr, pings, inWrite, connUsers, wire,
                   accepted, taken, cur, callsLeft, errCalls, history>>

\* writePump after a written text or binary message: its sent handler runs.
writePump_sent ==
    /\ Alive
    /\ UNCHANGED <<clock, rerr>>
    /\ pc["wp"] = "raw_ret"
    /\ werr = Nil
    /\ wmsg.t \in {TextMessage, BinaryMessage}
    /\ sent' = Append(sent, wmsg)
    /\ wmsg' = NoMsg
    /\ goto("wp", "select")
    /\ UNCHANGED <<shared, werr, pings, inWrite, connUsers, wire,
                   accepted, taken, cur, callsLeft, errCalls, history>>

\* ------------------------------------------------------------- readPump
\* conn.ReadMessage returns a text or binary message: its handler runs and
\* the loop reads again.
readPump_message ==
    /\ Alive
    /\ UNCHANGED <<clock, rerr>>
    /\ pc["rp"] = "read"
    /\ connCloses = 0
    /\ now < readDeadline
    /\ connUsers' = connUsers \cup {"rp"}
    /\ UNCHANGED <<shared, pc, pumpLocals, inWrite, wire, accepted, taken,
                   sent, cur, callsLeft, errCalls, history>>

\* readPump reporting a read error and reading again instead of leaving the
\* loop.
readPump_error_continue(byClose) ==
    /\ Alive
    /\ UNCHANGED clock
    /\ pc["rp"] = "read"
    /\ byClose = (connCloses > 0)
    /\ errCalls["rp"] < 2
    /\ errorHandler("rp")
    /\ rerr' = (IF byClose THEN ErrConnClosed ELSE ErrTransport)
    /\ connUsers' = connUsers \cup {"rp"}
    /\ UNCHANGED <<shared, pc, pumpLocals, inWrite, wire, accepted, taken,
                   sent, cur, callsLeft, history>>

\* conn.ReadMessage returns an error: it is reported and the loop ends.
\* byClose: the read was released by conn.Close(); otherwise the network
\* failed it.
readPump_error(byClose) ==
    /\ Alive
    /\ UNCHANGED clock
    /\ pc["rp"] = "read"
    /\ byClose = (connCloses > 0)
    /\ errorHandler("rp")
    /\ rerr' = (IF byClose THEN ErrConnClosed ELSE ErrTransport)
    /\ connUsers' = connUsers \cup {"rp"}
    /\ goto("rp", "exit")
    /\ UNCHANGED <<shared, pumpLocals, inWrite, wire, accepted, taken, sent,
                   cur, callsLeft, history>>

\* ------------------------------------------------- readPump and the clock
\* The pong handler that forgets to renew the read deadline.
readPump_pong_norenew ==
    /\ Alive
    /\ pc["rp"] = "read"
    /\ connCloses = 0
    /\ now < readDeadline
    /\ pongs < MaxPongs
    /\ pongs' = pongs + 1
    /\ connUsers' = connUsers \cup {"rp"}
    /\ UNCHANGED <<shared, pc, pumpLocals, inWrite, wire, accepted, taken,
                   sent, cur, callsLeft, errCalls, history, now, readDeadline,
                   rerr>>

\* A pong arrives while conn.ReadMessage is waiting, before the read
\* deadline: the handler readPump installed renews the deadline and calls
\* pongHandler; the read goes on.
readPump_pong ==
    /\ Alive
    /\ pc["rp"] = "read"
    /\ connCloses = 0
    /\ now < readDeadline
    /\ pongs < MaxPongs
    /\ readDeadline' = now + PongWait
    /\ pongs' = pongs + 1
    /\ connUsers' = connUsers \cup {"rp"}
    /\ UNCHANGED <<shared, pc, pumpLocals, inWrite, wire, accepted, taken,
                   sent, cur, callsLeft, errCalls, history, now, rerr>>

\* conn.ReadMessage returns a timeout: the read deadline has passed with
\* nothing read.  The error is reported and the loop ends.
readPump_timeout ==
    /\ Alive
    /\ pc["rp"] = "read"
    /\ connCloses = 0
    /\ now >= readDeadline
    /\ errorHandler("rp")
    /\ rerr' = ErrTimeout
    /\ connUsers' = connUsers \cup {"rp"}
    /\ goto("rp", "exit")
    /\ UNCHANGED <<shared, pumpLocals, inWrite, wire, accepted, taken, sent,
                   cur, callsLeft, history, clock>>

\* The clock advances by one tick.
Tick ==
    /\ now < MaxTime
    /\ now' = now + 1
    /\ UNCHANGED <<shared, pc, pumpLocals, logs, cur, callsLeft, errCalls,
                   history, readDeadline, pongs, rerr>>

\* ---------------------------------------------------------- specification
Producer(p) ==
    \/ Write(p)
    \/ WriteBinary(p)
    \/ Close(p)
    \/ CloseWithMsg(p)
    \/ IsClosed(p)
    \/ writeMessage_closed(p)
    \/ writeMessage_send(p)

close(c) ==
    \/ close_closed(c)
    \/ close_Lock(c)
    \/ close_conn(c)
    \/ close_output(c)
    \/ close_Unlock(c)

writeRaw ==
    \/ writeRaw_closed
    \/ writeRaw_write
    \/ writeRaw_return

writePump ==
    \/ writePump_receive
    \/ writePump_closed
    \/ writePump_tick
    \/ writeRaw
    \/ ping
    \/ writePump_error
    \/ writePump_close
    \/ writePump_sent

readPump ==
    \/ readPump_message
    \/ readPump_error(TRUE)
    \/ readPump_error(FALSE)

Next ==
    \/ \E p \in Producers : Producer(p)
    \/ writePump
    \/ readPump
    \/ \E c \in Pumps : teardown(c) \/ close(c)

Spec == Init /\ [][Next]_vars

\* What the scheduler and the runtime guarantee: a goroutine that can run
\* does run; select picks a ready case at random, so a buffered envelope is
\* received sooner or later even while the ticker keeps firing; a read of a
\* closed connection returns.  Nothing obliges the application to call, the
\* ticker to fire or the network to fail.
Fairness ==
    /\ \A p \in Producers :
          WF_vars(writeMessage_closed(p) \/ writeMessage_send(p))
    /\ \A c \in Pumps : WF_vars(teardown(c) \/ close(c))
    /\ SF_vars(writePump_receive)
    /\ WF_vars(writePump_closed \/ writeRaw \/ ping \/ writePump_error
               \/ writePump_close \/ writePump_sent)
    /\ WF_vars(readPump_error(TRUE))

\* The session as constructed, with the smaller budget of calls.
LiveInit ==
    /\ open = TRUE
    /\ wlock = NoOne
    /\ connCloses = 0
    /\ outCloses = 0
    /\ output = <<>>
    /\ panicked = FALSE
    /\ pc = [c \in Contexts |-> IF c = "wp" THEN "select"
                                ELSE IF c = "rp" THEN "read" ELSE "idle"]
    /\ cur = [p \in Producers |-> NoCall]
    /\ wmsg = NoMsg
    /\ werr = Nil
    /\ pings = 0
    /\ callsLeft = MaxLiveCalls
    /\ inWrite = {}
    /\ connUsers = {}
    /\ wire = <<>>
    /\ accepted = <<>>
    /\ taken = 0
    /\ sent = <<>>
    /\ errCalls = [c \in Contexts |-> 0]
    /\ history = [p \in Producers |-> <<>>]
    /\ now = 0
    /\ readDeadline = PongWait
    /\ pongs = 0
    /\ rerr = Nil

FairSpec == LiveInit /\ [][Next]_vars /\ Fairness

\* The session as constructed, for the behaviours in which the clock runs.
HeartbeatInit ==
    /\ open = TRUE
    /\ wlock = NoOne
    /\ connCloses = 0
    /\ outCloses = 0
    /\ output = <<>>
    /\ panicked = FALSE
    /\ pc = [c \in Contexts |-> IF c = "wp" THEN "select"
                                ELSE IF c = "rp" THEN "read" ELSE "idle"]
    /\ cur = [p \in Producers |-> NoCall]
    /\ wmsg = NoMsg
    /\ werr = Nil
    /\ pings = 0
    /\ callsLeft = MaxHeartbeatCalls
    /\ inWrite = {}
    /\ connUsers = {}
    /\ wire = <<>>
    /\ accepted = <<>>
    /\ taken = 0
    /\ sent = <<>>
    /\ errCalls = [c \in Contexts |-> 0]
    /\ history = [p \in Producers |-> <<>>]
    /\ now = 0
    /\ readDeadline = now + PongWait
    /\ pongs = 0
    /\ rerr = Nil

\* The session with time passing: the peer's pongs and the read deadline.
\* In Spec the clock stands still at the session's construction; a read
\* that fails for the network there leaves the session as a timeout does.
Heartbeat ==
    \/ Tick
    \/ readPump_pong
    \/ readPump_timeout

HeartbeatNext == Next \/ Heartbeat

\* A read whose deadline has passed returns.
HeartbeatFairness == Fairness /\ WF_vars(readPump_timeout)

HeartbeatSpec == HeartbeatInit /\ [][HeartbeatNext]_vars /\ HeartbeatFairness

\* ------------------------------------------------------------ properties
Last(h) == h[Len(h)]

IsUserWrite(w) == w.t # PingMessage

\* The text, binary and close messages given to conn.WriteMessage, in order.
UserWrites == SelectSeq(wire, IsUserWrite)

\* C1: under any interleaving of the pumps, the producers and concurrent
\* callers of close(), the close transition is performed at most once: the
\* connection is closed once and close(s.output) runs once.
C1_CloseOnce == connCloses <= 1 /\ outCloses <= 1

\* C2: no producer ever sends on the output channel after it was closed:
\* a producer that loses the race with close() gets an error, not a panic.
C2_NoSendOnClosedMailbox == \A p \in Producers : pc[p] # "panic"

\* C3: the text, binary and close messages writePump gives to the
\* connection are, in order, a prefix of the envelopes the channel accepted;
\* pings are interleaved without reordering, duplicating or displacing them.
C3_FifoOrder ==
    /\ Len(UserWrites) <= Len(accepted)
    /\ \A i \in 1..Len(UserWrites) :
          envelope(UserWrites[i].t, UserWrites[i].msg) = accepted[i]

\* Two different messages written in the order they were accepted, with a
\* ping written between them.
C3_Witness ==
    /\ Len(wire) = 3
    /\ wire[1].t = TextMessage
    /\ wire[2].t = PingMessage
    /\ wire[3].t = BinaryMessage
    /\ accepted = <<envelope(TextMessage, "a"), envelope(BinaryMessage, "a")>>

\* Producer p made a call or went on with one in this step.
Stepped(p) == pc'[p] # pc[p] \/ callsLeft' # callsLeft

\* Producer p's call returned in this step; Last(history'[p]) is its record.
Returned(p) == Stepped(p) /\ pc'[p] = "idle"

\* Producer p made a new call in this step.
Called(p) == pc[p] = "idle" /\ callsLeft' # callsLeft

ClosedResult(op) ==
    CASE op \in SendOps -> ErrSessionClosed
      [] op \in CloseOps -> ErrSessionAlreadyClosed
      [] OTHER -> "true"

\* C5: the open flag never returns to true, and a call made once it is false
\* returns at once with ErrSessionClosed (Write, WriteBinary) or
\* ErrSessionAlreadyClosed (Close, CloseWithMsg): it does not panic, enqueues
\* nothing and leaves the channel, the flag and the connection as they were.
C5_ClosedCallsFail ==
    [][ /\ ~open => ~open'
        /\ \A p \in Producers :
              (Called(p) /\ ~open)
              => /\ Returned(p)
                 /\ Last(history'[p]).res = ClosedResult(Last(history'[p]).op)
                 /\ UNCHANGED <<open, wlock, connCloses, outCloses, output,
                                panicked, accepted, errCalls>>
      ]_vars

\* After the close transition a Write returned ErrSessionClosed and a Close
\* returned ErrSessionAlreadyClosed.
C5_Witness ==
    /\ ~open
    /\ wlock = NoOne
    /\ \E p \in Producers :
          history[p] = << [op |-> "Write", res |-> ErrSessionClosed],
                          [op |-> "Close", res |-> ErrSessionAlreadyClosed] >>

\* C6: the channel never holds more than BufferSize envelopes; the send of a
\* Write / WriteBinary on an open session returns ErrMessageBufferFull at
\* once when BufferSize envelopes are buffered, leaving the buffer as it
\* was, and otherwise appends its envelope and returns nil.
C6_BufferFull ==
    /\ [](Len(output) <= BufferSize)
    /\ [][ \A p \in Producers :
              (pc[p] = "wm_send" /\ Stepped(p) /\ open /\ cur[p].op \in SendOps)
              => /\ Returned(p)
                 /\ IF Len(output) >= BufferSize
                       THEN /\ Last(history'[p]).res = ErrMessageBufferFull
                            /\ output' = output
                       ELSE /\ Last(history'[p]).res = Nil
                            /\ output' = Append(output, EnvelopeOf(cur[p]))
         ]_vars

\* BufferSize sends were accepted, none was received yet, and one more send
\* returned ErrMessageBufferFull.
C6_Witness ==
    /\ open
    /\ Len(output) = BufferSize
    /\ taken = 0
    /\ \E p \in Producers :
          /\ Len(history[p]) >= 2
          /\ history[p][Len(history[p]) - 1] = [op |-> "Write", res |-> Nil]
          /\ Last(history[p]) = [op |-> "Write", res |-> ErrMessageBufferFull]

\* C7: no accepted envelope is lost.  The k-th accepted envelope is in the
\* end given to conn.WriteMessage by writePump, or the session is closed; an
\* envelope writePump received is not given to the connection only if the
\* session is closed; so no envelope stays buffered for ever in an open
\* session.
C7_NoAcceptedLost ==
    /\ [](( /\ pc["wp"] \notin {"raw_check", "raw_write", "raw_writing"}
            /\ taken > Len(UserWrites) ) => ~open)
    /\ \A k \in 1..MaxCalls :
          (Len(accepted) >= k) ~> (Len(UserWrites) >= k \/ ~open)

\* writePump has stopped after a written close message while a later accepted
\* envelope was still buffered, and the close transition has happened.
C7_Witness ==
    /\ ~open
    /\ pc["wp"] = "done"
    /\ Len(accepted) = 2
    /\ Len(UserWrites) = 1
    /\ UserWrites[1].t = CloseMessage
    /\ UserWrites[1].err = Nil
    /\ Len(output) = 1

\* C8: at most one context is inside conn.WriteMessage at a time, and it is
\* writePump; no producer ever writes to, reads from or closes the connection.
C8_SingleWriter ==
    /\ Cardinality(inWrite) <= 1
    /\ inWrite \subseteq {"wp"}
    /\ connUsers \subseteq Pumps

\* writePump is inside conn.WriteMessage while a producer is inside a call.
C8_Witness ==
    /\ inWrite = {"wp"}
    /\ \E p \in Producers : pc[p] = "wm_send"

\* A close message was written to the connection.
CloseWritten ==
    \E i \in 1..Len(wire) : wire[i].t = CloseMessage /\ wire[i].err = Nil

\* C9: no step of a Close() call changes the open flag or closes the
\* connection or the channel, and a Close() that returns nil has enqueued a
\* close envelope; IsClosed() returns the negated flag; once writePump has
\* written the close envelope the session becomes closed and stays closed.
C9_CloseIsDeferred ==
    /\ [][ \A p \in Producers :
              /\ (Stepped(p) /\ (cur[p].op = "Close" \/ cur'[p].op = "Close"))
                 => UNCHANGED <<open, connCloses, outCloses>>
              /\ (Returned(p) /\ Last(history'[p]) = [op |-> "Close", res |-> Nil])
                 => output' = Append(output, envelope(CloseMessage, ""))
              /\ (Returned(p) /\ Last(history'[p]).op = "IsClosed")
                 => Last(history'[p]).res = (IF open THEN "false" ELSE "true")
         ]_vars
    /\ CloseWritten ~> [](~open)

\* Close() returned nil, writePump wrote the close envelope, and IsClosed()
\* then returned true.
C9_Witness ==
    /\ CloseWritten
    /\ \E p \in Producers :
          history[p] = << [op |-> "Close", res |-> Nil],
                          [op |-> "IsClosed", res |-> "true"] >>

\* C10: when readPump's read fails the error handler is invoked once by
\* readPump, readPump leaves its loop for good, the session becomes closed
\* and stays closed, and a Write made once it is closed returns
\* ErrSessionClosed.
C10_ReadFailureCloses ==
    /\ [](errCalls["rp"] = (IF pc["rp"] = "read" THEN 0 ELSE 1))
    /\ [][ /\ pc["rp"] # "read" => pc'["rp"] # "read"
           /\ \A p \in Producers :
                 (Called(p) /\ ~open /\ Returned(p)
                    /\ Last(history'[p]).op = "Write")
                 => Last(history'[p]).res = ErrSessionClosed
         ]_vars
    /\ (pc["rp"] # "read") ~> [](~open)

\* readPump's read failed on an open connection, the session was closed by
\* it, and a later Write returned ErrSessionClosed.
C10_Witness ==
    /\ pc["rp"] = "done"
    /\ pc["wp"] = "select"
    /\ errCalls["rp"] = 1
    /\ ~open
    /\ \E p \in Producers :
          /\ history[p] # <<>>
          /\ Last(history[p]) = [op |-> "Write", res |-> ErrSessionClosed]

\* C11: a Write / WriteBinary / Close / CloseWithMsg call that returns an
\* error (the session is closed, or the channel is full) has invoked the
\* error handler exactly once, in the step in which it returns; a call that
\* enqueues its envelope and returns nil has not invoked it; no other step
\* of a call invokes it.
C11_ErrorHandlerOnFailure ==
    [][ \A p \in Producers :
           /\ (Returned(p) /\ Last(history'[p]).op \in SendOps \cup CloseOps)
              => errCalls'[p] = errCalls[p]
                                  + (IF Last(history'[p]).res = Nil THEN 0 ELSE 1)
           /\ ~Returned(p) => errCalls'[p] = errCalls[p]
      ]_vars

\* C12: with time in ticks: a pong is handled only before the read deadline;
\* it renews the deadline to now + PongWait, invokes pongHandler once, and
\* leaves readPump reading and the session open; nothing else moves the
\* deadline.  The read fails with a timeout only once now has reached the
\* deadline, which is PongWait after the last renewal; readPump then reports
\* it once and leaves its loop.  A read still waiting on an open session
\* when the deadline passes returns nothing but an error, and the session
\* becomes closed and stays closed.
C12_Heartbeat ==
    /\ [][ /\ pongs' # pongs
              => /\ now < readDeadline
                 /\ readDeadline' = now + PongWait
                 /\ pongs' = pongs + 1
                 /\ pc["rp"] = "read" /\ pc'["rp"] = "read"
                 /\ UNCHANGED <<open, connCloses, outCloses, errCalls>>
           /\ pongs' = pongs => readDeadline' = readDeadline
           /\ (rerr' = ErrTimeout /\ rerr # ErrTimeout)
              => /\ now >= readDeadline
                 /\ pc["rp"] = "read" /\ pc'["rp"] = "exit"
                 /\ errCalls'["rp"] = errCalls["rp"] + 1
           /\ (pc["rp"] = "read" /\ now >= readDeadline /\ open
                 /\ pc'["rp"] # "read")
              => rerr' \in {ErrTimeout, ErrTransport}
         ]_vars
    /\ (pc["rp"] = "read" /\ now >= readDeadline) ~> [](~open)

\* A pong renewed the deadline at tick 1, no other pong came before the
\* renewed deadline, the read timed out and the session was closed.
C12_Witness ==
    /\ pongs = 1
    /\ readDeadline = 1 + PongWait
    /\ now >= readDeadline
    /\ rerr = ErrTimeout
    /\ pc["rp"] = "done"
    /\ ~open

\* C13: the open flag never goes back to true, so it changes at most once;
\* whenever no context holds the write lock, the channel is closed exactly
\* when the flag is false and exactly when the connection is closed; the
\* channel is never closed while the flag is true.
C13_ClosedTogether ==
    /\ [][~open => ~open']_vars
    /\ [](wlock = NoOne => /\ (outCloses > 0) <=> ~open
                           /\ (connCloses > 0) <=> ~open)
    /\ [](outCloses > 0 => ~open)

\* The close transition is over: the lock is free, the flag is false, the
\* connection and the channel are closed, and the closer has returned.
C13_Witness ==
    /\ wlock = NoOne
    /\ ~open
    /\ connCloses = 1
    /\ outCloses = 1
    /\ \E c \in Pumps : pc[c] = "done"

\* The i-th write to the connection was of a dequeued envelope and failed.
FailedWrite(i) == wire[i].t # PingMessage /\ wire[i].err # Nil

\* C14: when conn.WriteMessage fails for a dequeued envelope, that write is
\* the last thing writePump gives to the connection (no envelope and no ping
\* follows), writePump reports the error once and leaves its loop, and the
\* session becomes closed and stays closed.
C14_WriteFailureCloses ==
    /\ [](\A i \in 1..Len(wire) :
             FailedWrite(i)
             => /\ i = Len(wire)
                /\ pc["wp"] \notin {"select", "raw_check", "raw_write",
                                    "raw_writing"}
                /\ errCalls["wp"] = (IF pc["wp"] = "raw_ret" THEN 0 ELSE 1))
    /\ (\E i \in 1..Len(wire) : FailedWrite(i)) ~> [](~open)

\* A first envelope was written, the write of the second failed, writePump
\* reported it and stopped, and the session was closed.
C14_Witness ==
    /\ Len(wire) = 2
    /\ wire[1].t = TextMessage /\ wire[1].err = Nil
    /\ FailedWrite(2)
    /\ errCalls["wp"] = 1
    /\ pc["wp"] = "done"
    /\ ~open

\* C15: a close message written without error is the last thing given to
\* the connection: writePump is out of its loop from then on, so no queued
\* or later envelope, no second close message and no ping is written.
C15_NothingAfterClose ==
    \A i \in 1..Len(wire) :
       (wire[i].t = CloseMessage /\ wire[i].err = Nil)
       => /\ i = Len(wire)
          /\ inWrite = {}
          /\ pc["wp"] \notin {"select", "raw_check", "raw_write", "raw_writing"}

\* The close message was written while a user envelope and a second close
\* envelope were still buffered and the ticker had not fired; writePump has
\* returned and its goroutine has closed the session.
C15_Witness ==
    /\ Len(wire) = 1
    /\ wire[1].t = CloseMessage /\ wire[1].err = Nil
    /\ Len(output) = 2
    /\ \E j \in 1..2 : output[j].t = CloseMessage
    /\ \E j \in 1..2 : output[j].t = TextMessage
    /\ pings = 0
    /\ pc["wp"] = "done"

IsSentData(w) == w.t \in {TextMessage, BinaryMessage} /\ w.err = Nil

\* The text and binary messages written without error, in order.
SentData == SelectSeq(wire, IsSentData)

\* writePump has written a text or binary message and not yet run its handler.
HandlerDue ==
    pc["wp"] = "raw_ret" /\ werr = Nil /\ wmsg.t \in {TextMessage, BinaryMessage}

\* C16: the invocations of messageSentHandler (text) and
\* messageSentHandlerBinary (binary) are, in order and with the same
\* payloads, the text and binary messages written without error: one
\* invocation each, the last one due only between the write and the next
\* receive, and none for close messages, pings or failed writes.
C16_SentHandlers ==
    /\ Len(sent) = Len(SentData) - (IF HandlerDue THEN 1 ELSE 0)
    /\ \A i \in 1..Len(sent) :
          sent[i] = envelope(SentData[i].t, SentData[i].msg)

\* A text and a binary message were written and their handlers ran in that
\* order; a ping and a close message were written too, with no handler.
C16_Witness ==
    /\ sent = <<envelope(TextMessage, "a"), envelope(BinaryMessage, "a")>>
    /\ Len(wire) = 4
    /\ \E i \in 1..4 : wire[i].t = PingMessage /\ wire[i].err = Nil
    /\ wire[4].t = CloseMessage /\ wire[4].err = Nil
    /\ pc["wp"] = "exit"

\* The labels of the two pump loops.
LoopLabels == {"select", "raw_check", "raw_write", "raw_writing", "raw_ret",
               "read"}

\* Pump c has left its loop.
Exited(c) == pc[c] \notin LoopLabels

\* C17: once the close transition has been performed (the channel is
\* closed), both pumps leave their loops: readPump's read returns an error
\* and writePump's receive on the closed channel returns, whatever is still
\* buffered and whether or not the ticker fires.
C17_PumpsTerminate ==
    (outCloses > 0) ~> (Exited("wp") /\ Exited("rp"))

\* C17, where the process survives: the same, unless a goroutine panicked.
C17_PumpsTerminateOrPanic ==
    (outCloses > 0) ~> ((Exited("wp") /\ Exited("rp")) \/ panicked)

\* writePump takes this step into conn.WriteMessage.
WriteStarts == pc["wp"] = "raw_write" /\ pc'["wp"] = "raw_writing"

\* writeRaw's closed() guard is evaluated in this step.
GuardRuns == pc["wp"] = "raw_check" /\ pc'["wp"] # "raw_check"

\* The close transition is over: the flag is false and the lock released.
CloseCompleted == ~open /\ wlock = NoOne

\* What writeRaw does when its guard finds the session closed: it returns
\* ErrWriteToClosedSession and leaves the connection alone.
RefusesWrite ==
    /\ werr' = ErrWriteToClosedSession
    /\ pc'["wp"] = "raw_ret"
    /\ UNCHANGED <<inWrite, connUsers, wire>>

\* C18 as claimed: writePump never starts conn.WriteMessage once the close
\* transition has completed, however writeRaw's guard and write interleave
\* with a concurrent close(); an envelope received or a tick taken once the
\* flag is false makes writeRaw return ErrWriteToClosedSession without
\* touching the connection.
C18_NoWriteAfterClose ==
    [][ /\ WriteStarts => ~CloseCompleted
        /\ (GuardRuns /\ ~open) => RefusesWrite
      ]_vars

\* C18 as amended: the flag never returns to true, and writeRaw's guard,
\* when it runs with the flag false (as it does for every envelope received
\* and every tick taken once the flag is false), returns
\* ErrWriteToClosedSession without touching the connection; conn.WriteMessage
\* is started only after a guard that found the flag true, and it may start
\* after a close() that completed in between.
C18_NoWriteAfterCloseAmended ==
    [][ /\ ~open => ~open'
        /\ (GuardRuns /\ ~open) => RefusesWrite
        /\ (GuardRuns /\ open) => pc'["wp"] = "raw_write"
        /\ pc'["wp"] = "raw_write" => (pc["wp"] = "raw_write" \/ (GuardRuns /\ open))
        /\ (inWrite' # inWrite \/ wire' # wire)
           => pc["wp"] \in {"raw_write", "raw_writing"}
      ]_vars

\* The session was closed by readPump's side with an envelope still
\* buffered; writePump received it and writeRaw refused to write it; and
\* nothing was ever given to the connection.
C18_Witness ==
    /\ ~open
    /\ pc["rp"] = "done"
    /\ pc["wp"] = "raw_ret"
    /\ wmsg.t = TextMessage
    /\ werr = ErrWriteToClosedSession
    /\ wire = <<>>

\* C19: the send of a Close() / CloseWithMsg() on an open session whose
\* channel holds BufferSize envelopes returns ErrMessageBufferFull, reports
\* it once, and leaves the channel's contents, the flag, the connection and
\* the pumps as they were: the call enqueues no close envelope.
C19_CloseBackPressure ==
    [][ \A p \in Producers :
           ( /\ pc[p] = "wm_send" /\ Stepped(p)
             /\ cur[p].op \in CloseOps
             /\ open
             /\ Len(output) = BufferSize )
           => /\ Returned(p)
              /\ Last(history'[p]) = [op |-> cur[p].op, res |-> ErrMessageBufferFull]
              /\ errCalls'[p] = errCalls[p] + 1
              /\ UNCHANGED <<open, wlock, connCloses, outCloses, output,
                             panicked, accepted, wire, inWrite, connUsers>>
              /\ \A c \in Pumps : pc'[c] = pc[c]
      ]_vars

\* Two writes filled the channel, a Close() then returned
\* ErrMessageBufferFull, and the session is open with no close envelope
\* buffered.
C19_Witness ==
    /\ open
    /\ connCloses = 0
    /\ Len(output) = BufferSize
    /\ \A j \in 1..Len(output) : output[j].t # CloseMessage
    /\ \E p \in Producers :
          /\ history[p] # <<>>
          /\ Last(history[p]) = [op |-> "Close", res |-> ErrMessageBufferFull]

\* The labels inside close()'s critical section: conn.Close(),
\* close(s.output) and Unlock().  No handler is called and no channel
\* operation blocks there.
LockedLabels == {"cl_conn", "cl_chan", "cl_unlock"}

\* C20: the write lock is held only by a context that is inside close()'s
\* critical section, on its way to Unlock(): never while a handler runs or
\* a context waits on the channel, and never by a context that has stopped
\* without releasing it, which would leave every later closed() and close()
\* waiting for ever.
C20_NoLockDeadlock ==
    /\ wlock \in Pumps \cup {NoOne}
    /\ \A c \in Pumps : wlock = c => pc[c] \in LockedLabels

\* C20, where no goroutine panics: the holder is inside the critical
\* section and can take its next step.
C20_NoLockDeadlockOrPanic ==
    /\ wlock \in Pumps \cup {NoOne}
    /\ \A c \in Pumps :
          wlock = c => \/ panicked
                       \/ pc[c] \in LockedLabels /\ ENABLED close(c)

\* Without a panic every acquisition of the lock is followed by its release.
C20_LockReleasedOrPanic == (wlock # NoOne) ~> (wlock = NoOne \/ panicked)

====
